---- MODULE Spec2Model ----
(***************************************************************************)
(* A model of package welford (src/welford.go): the Aggregate that keeps   *)
(* the running count, mean and sum of squared deviations (m2) of a stream  *)
(* of observations, and the ConcurrentAggregate that wraps it in a         *)
(* sync.RWMutex.                                                           *)
(*                                                                         *)
(* float64 values are modelled by exact rationals <<n, d>> in lowest terms *)
(* with d > 0 (ideal arithmetic); a division by zero gives the non-finite  *)
(* values of IEEE arithmetic, <<0, 0>> (NaN) and <<1, 0>>, <<-1, 0>>       *)
(* (+Inf, -Inf), which every later operation turns into NaN.               *)
(***************************************************************************)
EXTENDS Integers, Sequences, FiniteSets, TLC

VARIABLES
    A,      \* the plain Aggregate under test: [count, mean, m2]
    obs,    \* history: the values folded into A since creation or the last Reset
    ret,    \* the last call made on A, its values or what it returned, and A before it
    agg,    \* the Aggregate embedded in the ConcurrentAggregate
    mu,     \* the RWMutex: [w: the writer holding or draining, readers: set]
    pc,     \* per thread: its position in the call it is making
    loc,    \* per thread: the locals of the call it is making
    log     \* history: the mutating calls, in the order they took the lock

vars == <<A, obs, ret, agg, mu, pc, loc, log>>
aggVars == <<A, obs, ret>>
concVars == <<agg, mu, pc, loc, log>>

----------------------------------------------------------------------------
(* Bounds of the model. *)

\* The longest stream of observations enumerated over Values.
MaxObs == 4
\* The most values one Update call of the plain Aggregate submits.
MaxBatch == 3

\* The most Update and Reset calls made on the ConcurrentAggregate in one run.
MaxLog == 2

\* The observations a caller draws from: -3/2, 0, 2 and 5.
Values == {<<-3, 2>>, <<0, 1>>, <<2, 1>>, <<5, 1>>}

\* The goroutines that share the ConcurrentAggregate.
Threads == {1, 2}

\* The batches the goroutines submit: Update(), Update(1) and Update(4, 7).
ConcBatches == {<<>>, <<<<1, 1>>>>, <<<<4, 1>>, <<7, 1>>>>}

\* The documented test vector [2, 4, 4, 4, 5, 5, 7, 9].
Scenario == <<<<2, 1>>, <<4, 1>>, <<4, 1>>, <<4, 1>>, <<5, 1>>, <<5, 1>>, <<7, 1>>, <<9, 1>>>>

----------------------------------------------------------------------------
(* float64 arithmetic, exact. *)

Abs(i) == IF i < 0 THEN -i ELSE i

RECURSIVE Gcd(_, _)
Gcd(a, b) == IF b = 0 THEN a ELSE Gcd(b, a % b)

Sign(i) == IF i < 0 THEN -1 ELSE IF i > 0 THEN 1 ELSE 0

\* n/d as a float64: lowest terms, positive denominator; x/0 is NaN or +-Inf.
Norm(n, d) ==
    IF d = 0 THEN <<Sign(n), 0>>
    ELSE LET g == Gcd(Abs(n), Abs(d))
         IN  <<Sign(d) * (n \div g), Abs(d) \div g>>

Zero == <<0, 1>>
NaN == <<0, 0>>
IsFinite(x) == x[2] # 0

\* float64(i) of an int.
FromInt(i) == <<i, 1>>

FAdd(x, y) ==
    IF IsFinite(x) /\ IsFinite(y) THEN Norm(x[1] * y[2] + y[1] * x[2], x[2] * y[2]) ELSE NaN
FSub(x, y) ==
    IF IsFinite(x) /\ IsFinite(y) THEN Norm(x[1] * y[2] - y[1] * x[2], x[2] * y[2]) ELSE NaN
FMul(x, y) ==
    IF IsFinite(x) /\ IsFinite(y) THEN Norm(x[1] * y[1], x[2] * y[2]) ELSE NaN
FDiv(x, y) ==
    IF IsFinite(x) /\ IsFinite(y) THEN Norm(x[1] * y[2], x[2] * y[1]) ELSE NaN
FLess(x, y) == x[1] * y[2] < y[1] * x[2]

----------------------------------------------------------------------------
(* Aggregate. *)

\* &Aggregate{}: the zero value of the struct.
NewAggregate == [count |-> 0, mean |-> Zero, m2 |-> Zero]

\* The statements of Aggregate.update, one operator each.
\* Mutation: the increment is lost.
IncCount_Lost(count) == count
IncCount(count) == count + 1
DeltaOf(Value, mean) == FSub(Value, mean)
\* Mutation: the divisor is the count after the next observation.
NewMean_NextCount(mean, Delta, count) == FAdd(mean, FDiv(Delta, FromInt(count + 1)))
NewMean(mean, Delta, count) == FAdd(mean, FDiv(Delta, FromInt(count)))
\* Mutations: Delta is squared, Delta2 unused; the product is subtracted.
NewM2_Subtract(m2, Delta, Delta2) == FSub(m2, FMul(Delta, Delta2))
NewM2_DeltaSquared(m2, Delta, Delta2) == FAdd(m2, FMul(Delta, Delta))
NewM2(m2, Delta, Delta2) == FAdd(m2, FMul(Delta, Delta2))

update(a, Value) ==
    LET count == IncCount(a.count)
        Delta == DeltaOf(Value, a.mean)
        mean == NewMean(a.mean, Delta, count)
        Delta2 == DeltaOf(Value, mean)
    IN  [count |-> count, mean |-> mean, m2 |-> NewM2(a.m2, Delta, Delta2)]

\* Mutation: the loop stops after the first value.
Update_FirstOnly(a, vs) == IF vs = <<>> THEN a ELSE update(a, Head(vs))
\* Aggregate.Update: the range loop over Values.
RECURSIVE Update(_, _)
Update(a, vs) == IF vs = <<>> THEN a ELSE Update(update(a, Head(vs)), Tail(vs))

\* Mutations: Reset leaves m2, or mean, as it was.
Reset_KeepM2(a) == [a EXCEPT !.count = 0, !.mean = Zero]
Reset_KeepMean(a) == [a EXCEPT !.count = 0, !.m2 = Zero]
Reset(a) == [a EXCEPT !.count = 0, !.mean = Zero, !.m2 = Zero]

Count(a) == a.count
Mean(a) == a.mean
\* Mutation: the population variance divides by count - 1.
Variance_Bessel(a) == IF a.count = 0 THEN Zero ELSE FDiv(a.m2, FromInt(a.count - 1))
Variance(a) == IF a.count = 0 THEN Zero ELSE FDiv(a.m2, FromInt(a.count))
\* Mutation: the guard lets count = 1 through.
SampleVariance_OffByOne(a) == IF a.count = 0 THEN Zero ELSE FDiv(a.m2, FromInt(a.count - 1))
SampleVariance(a) == IF a.count <= 1 THEN Zero ELSE FDiv(a.m2, FromInt(a.count - 1))
Results(a) == <<Count(a), Mean(a), Variance(a), SampleVariance(a)>>

\* fmt's %f verb: the value rounded to six decimals, in millionths.
Fmt(x) ==
    IF ~IsFinite(x) THEN x
    ELSE LET q == (2 * Abs(x[1]) * 1000000 + x[2]) \div (2 * x[2])
         IN  <<Sign(x[1]) * q>>

\* Aggregate.String: one Results call, rendered by Sprintf.
\* Sprintf("Count: %d, Mean: %f, Variance: %f, Sample Variance: %f", ...)
Render(r) ==
    <<"Count", r[1], "Mean", Fmt(r[2]), "Variance", Fmt(r[3]), "Sample Variance", Fmt(r[4])>>

String(a) == Render(Results(a))

----------------------------------------------------------------------------
(* The plain Aggregate, driven by one caller. *)

IsPrefix(s, t) == Len(s) <= Len(t) /\ SubSeq(t, 1, Len(s)) = s

\* The streams of observations the caller submits between two Resets: every
\* stream over Values of at most MaxObs values, and the documented test vector.
IsInput(s) ==
    \/ Len(s) <= MaxObs /\ \A i \in 1..Len(s) : s[i] \in Values
    \/ IsPrefix(s, Scenario)

\* The batches of n values that continue the stream s.
Batches(s, n) ==
    {vs \in [1..n -> Values] : IsInput(s \o vs)}
        \cup (IF IsPrefix(s, Scenario) /\ Len(s) + n <= Len(Scenario)
              THEN {SubSeq(Scenario, Len(s) + 1, Len(s) + n)} ELSE {})

AggInit ==
    /\ A = NewAggregate
    /\ obs = <<>>
    /\ ret = [op |-> "NewAggregate", val |-> <<>>, before |-> NewAggregate]

DoUpdate ==
    \E n \in 0..MaxBatch : \E vs \in Batches(obs, n) :
        /\ A' = Update(A, vs)
        /\ obs' = obs \o vs
        /\ ret' = [op |-> "Update", val |-> vs, before |-> A]
        /\ UNCHANGED concVars

DoReset ==
    /\ A' = Reset(A)
    /\ obs' = <<>>
    /\ ret' = [op |-> "Reset", val |-> <<>>, before |-> A]
    /\ UNCHANGED concVars

DoCount ==
    /\ ret' = [op |-> "Count", val |-> Count(A), before |-> A]
    /\ UNCHANGED <<A, obs>>
    /\ UNCHANGED concVars

DoMean ==
    /\ ret' = [op |-> "Mean", val |-> Mean(A), before |-> A]
    /\ UNCHANGED <<A, obs>>
    /\ UNCHANGED concVars

DoVariance ==
    /\ ret' = [op |-> "Variance", val |-> Variance(A), before |-> A]
    /\ UNCHANGED <<A, obs>>
    /\ UNCHANGED concVars

DoSampleVariance ==
    /\ ret' = [op |-> "SampleVariance", val |-> SampleVariance(A), before |-> A]
    /\ UNCHANGED <<A, obs>>
    /\ UNCHANGED concVars

DoResults ==
    /\ ret' = [op |-> "Results", val |-> Results(A), before |-> A]
    /\ UNCHANGED <<A, obs>>
    /\ UNCHANGED concVars

DoString ==
    /\ ret' = [op |-> "String", val |-> String(A), before |-> A]
    /\ UNCHANGED <<A, obs>>
    /\ UNCHANGED concVars

----------------------------------------------------------------------------
(* The ConcurrentAggregate, shared by goroutines. *)

\* No goroutine: the value of mu.w when no writer holds or awaits the lock.
Nobody == 0

\* &ConcurrentAggregate{mu: &sync.RWMutex{}}: an unlocked mutex.
NewMutex == [w |-> Nobody, readers |-> {}]

\* mu.Lock(): a writer passes once no other writer holds or awaits the lock
\* (from then on new readers wait), and enters once the readers have left.
\* Mutations: the lock excludes nobody.
WriterMayPass_Shared(m) == TRUE
ReaderMayEnter_Unlocked(m) == TRUE
WriterMayPass(m) == m.w = Nobody
\* Mutation: the writer does not wait for the readers to leave.
WriterMayEnter_NoDrain(m) == TRUE
WriterMayEnter(m) == m.readers = {}
\* mu.RLock(): a reader enters unless a writer holds or awaits the lock.
ReaderMayEnter(m) == m.w = Nobody

\* The locals of a call; those not yet set, or out of scope, hold these values.
\* r is what the call returns, as a tuple: <<count>> for Count.
NoLocals ==
    [op |-> "none", vs |-> <<>>, Value |-> Zero, tmp |-> 0,
     Delta |-> Zero, Delta2 |-> Zero, r |-> <<>>]

\* The positions at which a goroutine is inside Update's or Reset's critical
\* section, and inside a read critical section.
WriterSection == {"range", "u70", "u70w", "u71", "u72", "u73", "u74", "r48", "r49", "r50", "Unlock"}
ReaderSection == {"v158", "v166", "res1", "res2", "res3", "res4", "RUnlock"}

\* History: replaying logged calls one at a time on a plain Aggregate.
Apply(a, call) == IF call.op = "Update" THEN Update(a, call.vs) ELSE Reset(a)

RECURSIVE Replay(_, _)
Replay(a, calls) == IF calls = <<>> THEN a ELSE Replay(Apply(a, Head(calls)), Tail(calls))

\* The logged calls that have left their critical section.
Completed ==
    IF \E t \in Threads : pc[t] \in WriterSection
    THEN SubSeq(log, 1, Len(log) - 1) ELSE log

Committed == Replay(NewAggregate, Completed)

ConcInit ==
    /\ agg = NewAggregate
    /\ mu = NewMutex
    /\ pc = [t \in Threads |-> "idle"]
    /\ loc = [t \in Threads |-> NoLocals]
    /\ log = <<>>

Init == AggInit /\ ConcInit

Goto(t, p) == pc' = [pc EXCEPT ![t] = p]
SetLocals(t, l) == loc' = [loc EXCEPT ![t] = l]

\* A goroutine calls Update(vs...) or Reset().
CallUpdate(t) ==
    /\ pc[t] = "idle"
    /\ Len(log) + Cardinality({u \in Threads : pc[u] \in {"Lock", "Drain"}}) < MaxLog
    /\ \E vs \in ConcBatches :
           SetLocals(t, [NoLocals EXCEPT !.op = "Update", !.vs = vs])
    /\ Goto(t, "Lock")
    /\ UNCHANGED <<agg, mu, log>>
    /\ UNCHANGED aggVars

CallReset(t) ==
    /\ pc[t] = "idle"
    /\ Len(log) + Cardinality({u \in Threads : pc[u] \in {"Lock", "Drain"}}) < MaxLog
    /\ SetLocals(t, [NoLocals EXCEPT !.op = "Reset"])
    /\ Goto(t, "Lock")
    /\ UNCHANGED <<agg, mu, log>>
    /\ UNCHANGED aggVars

\* A.mu.Lock(), first half: exclude the other writers and the new readers.
Lock(t) ==
    /\ pc[t] = "Lock"
    /\ WriterMayPass(mu)
    /\ mu' = [mu EXCEPT !.w = t]
    /\ Goto(t, "Drain")
    /\ UNCHANGED <<agg, loc, log>>
    /\ UNCHANGED aggVars

\* A.mu.Lock(), second half: wait for the active readers to leave.
Drain(t) ==
    /\ pc[t] = "Drain"
    /\ WriterMayEnter(mu)
    /\ log' = Append(log, [t |-> t, op |-> loc[t].op, vs |-> loc[t].vs])
    /\ Goto(t, IF loc[t].op = "Update" THEN "range" ELSE "r48")
    /\ UNCHANGED <<agg, mu, loc>>
    /\ UNCHANGED aggVars

\* for _, v := range Values
Range(t) ==
    /\ pc[t] = "range"
    /\ IF loc[t].vs = <<>>
       THEN /\ Goto(t, "Unlock")
            /\ UNCHANGED loc
       ELSE /\ Goto(t, "u70")
            /\ SetLocals(t, [loc[t] EXCEPT !.Value = Head(loc[t].vs), !.vs = Tail(loc[t].vs)])
    /\ UNCHANGED <<agg, mu, log>>
    /\ UNCHANGED aggVars

\* A.count++: the load ...
LoadCount(t) ==
    /\ pc[t] = "u70"
    /\ SetLocals(t, [loc[t] EXCEPT !.tmp = agg.count])
    /\ Goto(t, "u70w")
    /\ UNCHANGED <<agg, mu, log>>
    /\ UNCHANGED aggVars

\* ... and the store.
StoreCount(t) ==
    /\ pc[t] = "u70w"
    /\ agg' = [agg EXCEPT !.count = IncCount(loc[t].tmp)]
    /\ Goto(t, "u71")
    /\ UNCHANGED <<mu, loc, log>>
    /\ UNCHANGED aggVars

\* Delta := Value - A.mean
SetDelta(t) ==
    /\ pc[t] = "u71"
    /\ SetLocals(t, [loc[t] EXCEPT !.Delta = DeltaOf(loc[t].Value, agg.mean)])
    /\ Goto(t, "u72")
    /\ UNCHANGED <<agg, mu, log>>
    /\ UNCHANGED aggVars

\* A.mean += Delta / float64(A.count)
StoreMean(t) ==
    /\ pc[t] = "u72"
    /\ agg' = [agg EXCEPT !.mean = NewMean(agg.mean, loc[t].Delta, agg.count)]
    /\ Goto(t, "u73")
    /\ UNCHANGED <<mu, loc, log>>
    /\ UNCHANGED aggVars

\* Delta2 := Value - A.mean
SetDelta2(t) ==
    /\ pc[t] = "u73"
    /\ SetLocals(t, [loc[t] EXCEPT !.Delta2 = DeltaOf(loc[t].Value, agg.mean)])
    /\ Goto(t, "u74")
    /\ UNCHANGED <<agg, mu, log>>
    /\ UNCHANGED aggVars

\* A.m2 += Delta * Delta2, and update returns: its locals go out of scope.
StoreM2(t) ==
    /\ pc[t] = "u74"
    /\ agg' = [agg EXCEPT !.m2 = NewM2(agg.m2, loc[t].Delta, loc[t].Delta2)]
    /\ SetLocals(t, [NoLocals EXCEPT !.op = loc[t].op, !.vs = loc[t].vs])
    /\ Goto(t, "range")
    /\ UNCHANGED <<mu, log>>
    /\ UNCHANGED aggVars

\* Aggregate.Reset, statement by statement.
ResetCount(t) ==
    /\ pc[t] = "r48"
    /\ agg' = [agg EXCEPT !.count = Reset(agg).count]
    /\ Goto(t, "r49")
    /\ UNCHANGED <<mu, loc, log>>
    /\ UNCHANGED aggVars

ResetMean(t) ==
    /\ pc[t] = "r49"
    /\ agg' = [agg EXCEPT !.mean = Reset(agg).mean]
    /\ Goto(t, "r50")
    /\ UNCHANGED <<mu, loc, log>>
    /\ UNCHANGED aggVars

ResetM2(t) ==
    /\ pc[t] = "r50"
    /\ agg' = [agg EXCEPT !.m2 = Reset(agg).m2]
    /\ Goto(t, "Unlock")
    /\ UNCHANGED <<mu, loc, log>>
    /\ UNCHANGED aggVars

\* defer A.mu.Unlock()
Unlock(t) ==
    /\ pc[t] = "Unlock"
    /\ mu' = [mu EXCEPT !.w = Nobody]
    /\ Goto(t, "ret")
    /\ UNCHANGED <<agg, loc, log>>
    /\ UNCHANGED aggVars

\* A goroutine calls Variance(), SampleVariance(), Results() or String().
CallRead(t) ==
    /\ pc[t] = "idle"
    /\ \E op \in {"Variance", "SampleVariance", "Results", "String"} :
           SetLocals(t, [NoLocals EXCEPT !.op = op])
    /\ Goto(t, "RLock")
    /\ UNCHANGED <<agg, mu, log>>
    /\ UNCHANGED aggVars

\* A.mu.RLock()
RLock(t) ==
    /\ pc[t] = "RLock"
    /\ ReaderMayEnter(mu)
    /\ mu' = [mu EXCEPT !.readers = @ \cup {t}]
    /\ Goto(t, CASE loc[t].op = "Variance" -> "v158"
                 [] loc[t].op = "SampleVariance" -> "v166"
                 [] OTHER -> "res1")
    /\ UNCHANGED <<agg, loc, log>>
    /\ UNCHANGED aggVars

\* return A.Aggregate.Variance()
ReadVariance(t) ==
    /\ pc[t] = "v158"
    /\ SetLocals(t, [loc[t] EXCEPT !.r = Variance(agg)])
    /\ Goto(t, "RUnlock")
    /\ UNCHANGED <<agg, mu, log>>
    /\ UNCHANGED aggVars

\* Mutation: SampleVariance divides m2 in place.
ReadSampleVariance_InPlace(t) ==
    /\ pc[t] = "v166"
    /\ agg' = [agg EXCEPT !.m2 = SampleVariance(agg)]
    /\ SetLocals(t, [loc[t] EXCEPT !.r = SampleVariance(agg)])
    /\ Goto(t, "RUnlock")
    /\ UNCHANGED <<mu, log>>
    /\ UNCHANGED aggVars

\* return A.Aggregate.SampleVariance()
ReadSampleVariance(t) ==
    /\ pc[t] = "v166"
    /\ SetLocals(t, [loc[t] EXCEPT !.r = SampleVariance(agg)])
    /\ Goto(t, "RUnlock")
    /\ UNCHANGED <<agg, mu, log>>
    /\ UNCHANGED aggVars

\* return A.Count(), A.Mean(), A.Variance(), A.SampleVariance(): the four
\* calls of Aggregate.Results, evaluated left to right.
ResultsCount(t) ==
    /\ pc[t] = "res1"
    /\ SetLocals(t, [loc[t] EXCEPT !.r = <<Count(agg)>>])
    /\ Goto(t, "res2")
    /\ UNCHANGED <<agg, mu, log>>
    /\ UNCHANGED aggVars

ResultsMean(t) ==
    /\ pc[t] = "res2"
    /\ SetLocals(t, [loc[t] EXCEPT !.r = Append(@, Mean(agg))])
    /\ Goto(t, "res3")
    /\ UNCHANGED <<agg, mu, log>>
    /\ UNCHANGED aggVars

ResultsVariance(t) ==
    /\ pc[t] = "res3"
    /\ SetLocals(t, [loc[t] EXCEPT !.r = Append(@, Variance(agg))])
    /\ Goto(t, "res4")
    /\ UNCHANGED <<agg, mu, log>>
    /\ UNCHANGED aggVars

ResultsSampleVariance(t) ==
    /\ pc[t] = "res4"
    /\ SetLocals(t, [loc[t] EXCEPT !.r = Append(@, SampleVariance(agg))])
    /\ Goto(t, "RUnlock")
    /\ UNCHANGED <<agg, mu, log>>
    /\ UNCHANGED aggVars

\* Mutation: the read lock is not released.
RUnlock_Forgotten(t) ==
    /\ pc[t] = "RUnlock"
    /\ Goto(t, IF loc[t].op = "String" THEN "s181" ELSE "ret")
    /\ UNCHANGED <<agg, mu, loc, log>>
    /\ UNCHANGED aggVars

\* defer A.mu.RUnlock()
RUnlock(t) ==
    /\ pc[t] = "RUnlock"
    /\ mu' = [mu EXCEPT !.readers = @ \ {t}]
    /\ Goto(t, IF loc[t].op = "String" THEN "s181" ELSE "ret")
    /\ UNCHANGED <<agg, loc, log>>
    /\ UNCHANGED aggVars

\* ConcurrentAggregate.String: Sprintf of the tuple its Results call returned.
Sprintf(t) ==
    /\ pc[t] = "s181"
    /\ SetLocals(t, [loc[t] EXCEPT !.r = Render(@)])
    /\ Goto(t, "ret")
    /\ UNCHANGED <<agg, mu, log>>
    /\ UNCHANGED aggVars

\* What a load that races with a store may give: Count and Mean are promoted
\* from Aggregate and take no lock, so the load sees the field as it is now or,
\* with no happens-before edge to the writer inside, as the last Unlock left it.
RacyLoad(t, now, before) ==
    \/ SetLocals(t, [loc[t] EXCEPT !.r = now])
    \/ SetLocals(t, [loc[t] EXCEPT !.r = before])

\* A goroutine calls Count() or Mean().
CallCount(t) ==
    /\ pc[t] = "idle"
    /\ SetLocals(t, [NoLocals EXCEPT !.op = "Count"])
    /\ Goto(t, "c80")
    /\ UNCHANGED <<agg, mu, log>>
    /\ UNCHANGED aggVars

CallMean(t) ==
    /\ pc[t] = "idle"
    /\ SetLocals(t, [NoLocals EXCEPT !.op = "Mean"])
    /\ Goto(t, "m84")
    /\ UNCHANGED <<agg, mu, log>>
    /\ UNCHANGED aggVars

\* return A.count
ReadCount(t) ==
    /\ pc[t] = "c80"
    /\ RacyLoad(t, <<agg.count>>, <<Committed.count>>)
    /\ Goto(t, "ret")
    /\ UNCHANGED <<agg, mu, log>>
    /\ UNCHANGED aggVars

\* return A.mean
ReadMean(t) ==
    /\ pc[t] = "m84"
    /\ RacyLoad(t, agg.mean, Committed.mean)
    /\ Goto(t, "ret")
    /\ UNCHANGED <<agg, mu, log>>
    /\ UNCHANGED aggVars

\* The call returns to its caller, which drops the result.
Return(t) ==
    /\ pc[t] = "ret"
    /\ SetLocals(t, NoLocals)
    /\ Goto(t, "idle")
    /\ UNCHANGED <<agg, mu, log>>
    /\ UNCHANGED aggVars

----------------------------------------------------------------------------
(* Specifications. *)

\* The plain Aggregate and its single caller.
Next ==
    \/ DoUpdate
    \/ DoReset
    \/ DoCount
    \/ DoMean
    \/ DoVariance
    \/ DoSampleVariance
    \/ DoResults
    \/ DoString

Spec == Init /\ [][Next]_vars

\* The ConcurrentAggregate and its goroutines.
ConcNext ==
    \E t \in Threads :
        \/ CallUpdate(t)
        \/ CallReset(t)
        \/ Lock(t)
        \/ Drain(t)
        \/ Range(t)
        \/ LoadCount(t)
        \/ StoreCount(t)
        \/ SetDelta(t)
        \/ StoreMean(t)
        \/ SetDelta2(t)
        \/ StoreM2(t)
        \/ ResetCount(t)
        \/ ResetMean(t)
        \/ ResetM2(t)
        \/ Unlock(t)
        \/ CallRead(t)
        \/ RLock(t)
        \/ ReadVariance(t)
        \/ ReadSampleVariance(t)
        \/ ResultsCount(t)
        \/ ResultsMean(t)
        \/ ResultsVariance(t)
        \/ ResultsSampleVariance(t)
        \/ RUnlock(t)
        \/ Sprintf(t)
        \/ CallCount(t)
        \/ CallMean(t)
        \/ ReadCount(t)
        \/ ReadMean(t)
        \/ Return(t)

ConcSpec == Init /\ [][ConcNext]_vars

\* A step of goroutine t inside a call it has made: every action but the calls.
Proceed(t) ==
    \/ Lock(t)
    \/ Drain(t)
    \/ Range(t)
    \/ LoadCount(t)
    \/ StoreCount(t)
    \/ SetDelta(t)
    \/ StoreMean(t)
    \/ SetDelta2(t)
    \/ StoreM2(t)
    \/ ResetCount(t)
    \/ ResetMean(t)
    \/ ResetM2(t)
    \/ Unlock(t)
    \/ RLock(t)
    \/ ReadVariance(t)
    \/ ReadSampleVariance(t)
    \/ ResultsCount(t)
    \/ ResultsMean(t)
    \/ ResultsVariance(t)
    \/ ResultsSampleVariance(t)
    \/ RUnlock(t)
    \/ Sprintf(t)
    \/ ReadCount(t)
    \/ ReadMean(t)
    \/ Return(t)

\* The ConcurrentAggregate under a fair scheduler: a goroutine that can take
\* its next step (it is runnable, or the lock it waits for stays free for it)
\* eventually takes it. Nothing obliges a goroutine to make a call.
FairConcSpec == ConcSpec /\ \A t \in Threads : WF_vars(Proceed(t))

----------------------------------------------------------------------------
(* Properties. *)

\* The goroutines have all returned from their calls.
AllReturned == \A t \in Threads : pc[t] = "idle"

\* The number of values goroutine t has submitted through logged Update calls.
RECURSIVE SubmittedIn(_, _)
SubmittedIn(calls, t) ==
    IF calls = <<>> THEN 0
    ELSE (IF Head(calls).t = t /\ Head(calls).op = "Update" THEN Len(Head(calls).vs) ELSE 0)
             + SubmittedIn(Tail(calls), t)

RECURSIVE SumOver(_, _)
SumOver(f, S) ==
    IF S = {} THEN 0 ELSE LET x == CHOOSE y \in S : TRUE IN f[x] + SumOver(f, S \ {x})

TotalSubmitted == SumOver([t \in Threads |-> SubmittedIn(log, t)], Threads)

NoResetLogged == \A i \in 1..Len(log) : log[i].op # "Reset"

\* C1: no lost updates. Once every call on a fresh ConcurrentAggregate has
\* returned, and none of them was a Reset, Count() is the number of values the
\* goroutines submitted: N*M when each of the N goroutines submitted M.
C1_NoLostUpdates ==
    (AllReturned /\ NoResetLogged) => Count(agg) = TotalSubmitted

\* Both goroutines have submitted two values, and Count() is 2*2.
C1_Witness ==
    /\ AllReturned
    /\ NoResetLogged
    /\ \A t \in Threads : SubmittedIn(log, t) = 2
    /\ Count(agg) = 2 * Cardinality(Threads)

\* The tuples Results() gives on the states the completed prefixes of the
\* serialized calls leave.
Snapshots ==
    {Results(Replay(NewAggregate, SubSeq(log, 1, k))) : k \in 0..Len(Completed)}

\* C2: no torn reads. The tuple a Results() call returned, and the one a
\* String() call rendered, is the (count, mean, variance, sample variance) of
\* the state after some completed prefix of the serialized calls.
C2_NoTornReads ==
    \A t \in Threads :
        pc[t] = "ret" =>
            /\ loc[t].op = "Results" => loc[t].r \in Snapshots
            /\ loc[t].op = "String" => loc[t].r \in {Render(r) : r \in Snapshots}

\* A Results() call has returned the state Update(4, 7) left while the other
\* goroutine is again inside a mutating call.
C2_Witness ==
    \E t, u \in Threads :
        /\ pc[t] = "ret"
        /\ loc[t].op = "Results"
        /\ loc[t].r = <<2, <<11, 2>>, <<9, 4>>, <<9, 2>>>>
        /\ pc[u] \in WriterSection \ {"range", "Unlock"}

\* The tuples Results() gives on the states the prefixes of the serialized
\* calls leave, the call now inside its critical section included.
SerialSnapshots ==
    {Results(Replay(NewAggregate, SubSeq(log, 1, k))) : k \in 0..Len(log)}

\* C3: Count() and Mean() of a ConcurrentAggregate read their field only
\* while no goroutine is inside Update's or Reset's critical section, and the
\* value they return is the count, or mean, of a state some prefix of the
\* serialized calls leaves, never one of a partially applied update.
C3_CountMeanReadUnderLock ==
    \A t \in Threads :
        /\ pc[t] \in {"c80", "m84"} => \A u \in Threads : pc[u] \notin WriterSection
        /\ (pc[t] = "ret" /\ loc[t].op = "Count") => \E r \in SerialSnapshots : loc[t].r = <<r[1]>>
        /\ (pc[t] = "ret" /\ loc[t].op = "Mean") => \E r \in SerialSnapshots : loc[t].r = r[2]

\* C4: mutations are serialized. At most one goroutine is inside Update's or
\* Reset's critical section, and whenever none is (so once all calls have
\* returned) the state is the one the logged calls leave when run one at a
\* time, each batch in order, on a plain Aggregate.
C4_Serialized ==
    /\ Cardinality({t \in Threads : pc[t] \in WriterSection}) <= 1
    /\ (\A t \in Threads : pc[t] \notin WriterSection) => agg = Replay(NewAggregate, log)

\* Two goroutines have returned, one from Update(1) and then the other from
\* Update(4, 7): count 3, mean 4, m2 18.
C4_Witness ==
    /\ AllReturned
    /\ Len(log) = 2
    /\ log[1].t # log[2].t
    /\ log[1].vs = <<<<1, 1>>>>
    /\ log[2].vs = <<<<4, 1>>, <<7, 1>>>>
    /\ agg = [count |-> 3, mean |-> <<4, 1>>, m2 |-> <<18, 1>>]

Queries == {"Count", "Mean", "Variance", "SampleVariance", "Results", "String"}

\* C5: Count() is the number of values submitted since creation or the last
\* Reset, however they were batched; a call other than Update and Reset leaves
\* count as it was.
C5_CountTracksObservations ==
    /\ Count(A) = Len(obs)
    /\ ret.op = "Count" => ret.val = Len(obs)
    /\ ret.op \in Queries => A.count = ret.before.count

\* Count() has returned 3 after three values.
C5_Witness == ret.op = "Count" /\ ret.val = 3 /\ Len(obs) = 3

Zeros == <<0, Zero, Zero, Zero>>

\* C6: after Reset, whatever the state before, the Aggregate is the one
\* NewAggregate creates, and Count, Mean, Variance and SampleVariance are 0.
C6_ResetRestoresEmpty ==
    ret.op = "Reset" => (A = NewAggregate /\ Results(A) = Zeros)

\* Reset has run on an Aggregate that held four observations with m2 > 0.
C6_Witness ==
    /\ ret.op = "Reset"
    /\ ret.before.count = 4
    /\ FLess(Zero, ret.before.m2)
    /\ A = NewAggregate

\* C7: Variance() is 0 when count = 0, SampleVariance() is 0 when count <= 1,
\* and no accessor returns the NaN or infinity of a division by zero.
C7_VarianceTotal ==
    /\ A.count = 0 => Variance(A) = Zero
    /\ A.count <= 1 => SampleVariance(A) = Zero
    /\ IsFinite(Mean(A)) /\ IsFinite(Variance(A)) /\ IsFinite(SampleVariance(A))
    /\ ret.op \in {"Mean", "Variance", "SampleVariance"} => IsFinite(ret.val)

\* SampleVariance() has returned 0 on an Aggregate holding the one value 5.
C7_Witness ==
    /\ ret.op = "SampleVariance"
    /\ A.count = 1
    /\ A.mean = <<5, 1>>
    /\ ret.val = Zero

RECURSIVE FSum(_)
FSum(s) == IF s = <<>> THEN Zero ELSE FAdd(Head(s), FSum(Tail(s)))

\* The two-pass statistics of a non-empty stream.
ArithmeticMean(s) == FDiv(FSum(s), FromInt(Len(s)))
SumSqDev(s) ==
    LET m == ArithmeticMean(s)
    IN  FSum([i \in 1..Len(s) |-> FMul(FSub(s[i], m), FSub(s[i], m))])

\* C8: after the values x1..xn, n >= 1, m2 is the sum of the (xi - mean)^2,
\* Variance() is that sum over n and, for n >= 2, SampleVariance() is that sum
\* over n - 1; [2, 4, 4, 4, 5, 5, 7, 9] gives count 8, mean 5, variance 4 and
\* sample variance 32/7.
C8_TrueVariance ==
    /\ obs # <<>> =>
           /\ A.m2 = SumSqDev(obs)
           /\ Variance(A) = FDiv(SumSqDev(obs), FromInt(Len(obs)))
           /\ Len(obs) >= 2 => SampleVariance(A) = FDiv(SumSqDev(obs), FromInt(Len(obs) - 1))
    /\ obs = Scenario => Results(A) = <<8, <<5, 1>>, <<4, 1>>, <<32, 7>>>>

\* Results() has returned (8, 5, 4, 32/7) for the documented test vector.
C8_Witness ==
    /\ obs = Scenario
    /\ ret.op = "Results"
    /\ ret.val = <<8, <<5, 1>>, <<4, 1>>, <<32, 7>>>>

Perms(n) == {p \in [1..n -> 1..n] : \A i, j \in 1..n : p[i] = p[j] => i = j}
Permute(s, p) == [i \in 1..Len(s) |-> s[p[i]]]
Reverse(s) == [i \in 1..Len(s) |-> s[Len(s) + 1 - i]]

\* C9: the value Mean() returns for a non-empty stream is the sum of the
\* observations over their number, and it is the Mean() of every permutation
\* of the stream (every permutation of a stream of at most MaxObs values, the
\* reversal of a longer one).
C9_MeanIsArithmeticMean ==
    (ret.op = "Mean" /\ obs # <<>>) =>
        /\ ret.val = ArithmeticMean(obs)
        /\ Mean(Update(NewAggregate, Reverse(obs))) = ret.val
        /\ Len(obs) <= MaxObs =>
               \A p \in Perms(Len(obs)) : Mean(Update(NewAggregate, Permute(obs, p))) = ret.val

\* Mean() has returned 11/6 for the stream 5, -3/2, 2.
C9_Witness ==
    /\ ret.op = "Mean"
    /\ obs = <<<<5, 1>>, <<-3, 2>>, <<2, 1>>>>
    /\ ret.val = <<11, 6>>

\* C10: an Aggregate with count = 0 has mean = 0 and m2 = 0, and Mean()
\* returns 0 on it.
C10_EmptyIsZeroed ==
    /\ A.count = 0 => (A.mean = Zero /\ A.m2 = Zero)
    /\ (ret.op = "Mean" /\ A.count = 0) => ret.val = Zero

\* A Reset has emptied an Aggregate whose mean and m2 were not 0.
C10_Witness ==
    /\ ret.op = "Reset"
    /\ ret.before.mean # Zero
    /\ ret.before.m2 # Zero
    /\ A.count = 0
    /\ Mean(A) = Zero

\* C11: in a state with count >= 1 the value Variance() returns is m2 / count,
\* in a state with count >= 2 the value SampleVariance() returns is
\* m2 / (count - 1), and Results() returns the count, the mean and those two
\* values of the one state it was called in.
C11_VarianceDerivedFromState ==
    /\ (ret.op = "Variance" /\ A.count >= 1) => ret.val = FDiv(A.m2, FromInt(A.count))
    /\ (ret.op = "SampleVariance" /\ A.count >= 2) => ret.val = FDiv(A.m2, FromInt(A.count - 1))
    /\ ret.op = "Results" =>
           /\ ret.val[1] = A.count
           /\ ret.val[2] = A.mean
           /\ ret.val[3] = (IF A.count >= 1 THEN FDiv(A.m2, FromInt(A.count)) ELSE Zero)
           /\ ret.val[4] = (IF A.count >= 2 THEN FDiv(A.m2, FromInt(A.count - 1)) ELSE Zero)

\* Results() has returned (3, 7/3, 38/9, 19/3) for the stream 0, 2, 5.
C11_Witness ==
    /\ ret.op = "Results"
    /\ obs = <<<<0, 1>>, <<2, 1>>, <<5, 1>>>>
    /\ A.m2 = <<38, 3>>
    /\ ret.val = <<3, <<7, 3>>, <<38, 9>>, <<19, 3>>>>

Mutators == {"Update", "Reset"}

\* Goroutine t takes a step of a call to one of the operations in ops.
StepOf(t, ops) == pc'[t] # pc[t] /\ (loc[t].op \in ops \/ loc'[t].op \in ops)

\* C12: queries have no side effects. No step of a Count, Mean, Variance,
\* SampleVariance, Results or String call changes count, mean or m2, on the
\* ConcurrentAggregate (whose queries run the Aggregate's accessors on the
\* embedded Aggregate) or on the plain Aggregate; the fields change only in a
\* step of an Update or Reset call.
C12_QueriesHaveNoSideEffects ==
    [][/\ \A t \in Threads : StepOf(t, Queries) => (agg' = agg /\ log' = log)
       /\ agg' # agg => \E t \in Threads : StepOf(t, Mutators)
       /\ ret'.op \in Queries => (A' = A /\ obs' = obs)
       /\ A' # A => ret'.op \in Mutators]_vars

\* A String() call has rendered the state Update(4, 7) left, which is still
\* the state of the embedded Aggregate.
C12_Witness ==
    \E t \in Threads :
        /\ pc[t] = "ret"
        /\ loc[t].op = "String"
        /\ loc[t].r = Render(<<2, <<11, 2>>, <<9, 4>>, <<9, 2>>>>)
        /\ agg = [count |-> 2, mean |-> <<11, 2>>, m2 |-> <<9, 2>>]

Writers == {t \in Threads : pc[t] \in WriterSection}
Readers == {t \in Threads : pc[t] \in ReaderSection}

\* C13: writer exclusion. At most one goroutine is inside the critical section
\* of Update or Reset, and while one is, none is inside the critical section
\* of Variance, SampleVariance or Results; the mutex records exactly the
\* goroutines inside (readers may be several, when no writer is inside).
C13_WriterExclusion ==
    /\ Cardinality(Writers) <= 1
    /\ Writers # {} => Readers = {}
    /\ mu.readers = Readers
    /\ \A t \in Writers : mu.w = t

\* Both goroutines are inside a read critical section at once, one in the
\* middle of Results and one in Variance, on the state Update(4, 7) left.
C13_Witness ==
    /\ pc[1] = "res3"
    /\ pc[2] = "v158"
    /\ mu.readers = {1, 2}
    /\ agg.count = 2

\* The positions at which a goroutine holds no lock: outside a call, waiting
\* for the lock, in Count or Mean, and after the deferred unlock.
Unlocked == {"idle", "Lock", "RLock", "c80", "m84", "s181", "ret"}

HoldsNoLock(t) == t \notin mu.readers /\ mu.w # t

\* C14: lock release and progress. A goroutine about to take the lock, or past
\* its deferred unlock, holds no lock (so none is taken twice and none is kept
\* after the return), and under fair scheduling every call a goroutine has
\* made returns, whatever the other goroutines call.
C14_ReleaseAndProgress ==
    /\ [](\A t \in Threads :
              /\ pc[t] \in Unlocked => HoldsNoLock(t)
              /\ pc[t] = "Drain" => t \notin mu.readers)
    /\ \A t \in Threads : (pc[t] # "idle") ~> (pc[t] = "idle")

\* A writer has excluded new readers and waits for an active reader to leave,
\* while that reader is in the middle of Results.
C14_Witness ==
    \E t, u \in Threads :
        /\ pc[t] = "Drain"
        /\ mu.w = t
        /\ pc[u] = "res2"
        /\ mu.readers = {u}

\* The calls Update(v1); ...; Update(vn), made one after the other on a.
RECURSIVE Singles(_, _)
Singles(a, vs) == IF vs = <<>> THEN a ELSE Singles(Update(a, <<Head(vs)>>), Tail(vs))

\* C15: batching is equivalent to one-at-a-time updates. The state an
\* Update(v1, ..., vn) call leaves is the state the n single-value calls leave
\* when made in that order from the state before it, and the state any two
\* consecutive batches with the same values leave; the state after any number
\* of batches is the state the single-value calls leave from a new Aggregate;
\* Update() with no values leaves the state as it was.
C15_BatchingIsOneAtATime ==
    /\ ret.op = "Update" =>
           /\ A = Singles(ret.before, ret.val)
           /\ \A k \in 0..Len(ret.val) :
                  A = Update(Update(ret.before, SubSeq(ret.val, 1, k)),
                             SubSeq(ret.val, k + 1, Len(ret.val)))
           /\ ret.val = <<>> => A = ret.before
    /\ A = Singles(NewAggregate, obs)

\* Update(5, 0, -3/2) has been called on an Aggregate that held the value 2.
C15_Witness ==
    /\ ret.op = "Update"
    /\ ret.before = [count |-> 1, mean |-> <<2, 1>>, m2 |-> Zero]
    /\ ret.val = <<<<5, 1>>, <<0, 1>>, <<-3, 2>>>>
    /\ A.count = 4

\* C16: state invariants of the sufficient statistics. In every reachable
\* state count >= 0 and m2 is a finite value >= 0; folding in any one value
\* adds Delta * Delta2 >= 0 to m2, so an Update call never leaves m2 below
\* what it was; Variance() and SampleVariance() are never negative.
C16_SufficientStatistics ==
    /\ A.count >= 0
    /\ IsFinite(A.mean) /\ IsFinite(A.m2)
    /\ ~FLess(A.m2, Zero)
    /\ \A v \in Values :
           LET Delta == DeltaOf(v, A.mean)
               Delta2 == DeltaOf(v, update(A, v).mean)
           IN  /\ ~FLess(FMul(Delta, Delta2), Zero)
               /\ update(A, v).m2 = FAdd(A.m2, FMul(Delta, Delta2))
               /\ ~FLess(update(A, v).m2, A.m2)
    /\ ret.op = "Update" => ~FLess(A.m2, ret.before.m2)
    /\ IsFinite(Variance(A)) /\ ~FLess(Variance(A), Zero)
    /\ IsFinite(SampleVariance(A)) /\ ~FLess(SampleVariance(A), Zero)

\* An Update call has raised m2 on an Aggregate that held two values or more.
C16_Witness ==
    /\ ret.op = "Update"
    /\ ret.before.count >= 2
    /\ Len(ret.val) >= 1
    /\ FLess(ret.before.m2, A.m2)
    /\ FLess(Zero, SampleVariance(A))

====
